---- MODULE Spec2Model ----
(***************************************************************************)
(* Model of src/server/pollable.rs: a crossbeam unbounded channel paired   *)
(* with a unix socketpair (the self-pipe trick).  Producer threads each    *)
(* own one PollableSender handle; one consumer thread owns the             *)
(* PollableReceiver and alternates poll_for_read and try_recv.             *)
(*                                                                         *)
(* Every statement of send and try_recv that touches shared state is one   *)
(* step, so that the interleavings between the pipe write and the enqueue, *)
(* and between the dequeue and the pipe read, are all explored.            *)
(***************************************************************************)
EXTENDS Integers, Sequences, FiniteSets, TLC

\* ------------------------------------------------------------------ bounds
NumHandles == 2      \* sender handles that can exist (the original + clones)
MaxSends   == 3      \* send calls made in all, over every handle
PipeCap    == 2      \* bytes the socketpair buffers before a write blocks

Handles == 1..NumHandles
Items   == Handles \X (1..MaxSends)    \* <<h, k>>: the k-th item sent on handle h

VARIABLES
    queue,      \* crossbeam channel contents, oldest first
    rxAlive,    \* the crossbeam Receiver has not been dropped
    pipe,       \* unread bytes buffered in the socketpair
    readOpen,   \* the read end of the socketpair is open
    hstate,     \* per handle: "none" | "idle" | "write" | "enqueue" |
                \*             "closing" | "dropped"
    nsent,      \* per handle: number of send calls started
    sres,       \* per handle: result of the last send call that returned
    sent,       \* per handle: items whose send returned Ok, in call order
    cres,       \* outcome of the last clone call: "none" | "Ok" | "Panic"
    cpc,        \* consumer: "new" | "failed" | "ready" | "polling" | "woken" |
                \*           "drain" | "rxgone" | "closed"
    held,       \* consumer: the local `item` of try_recv between pop and return
    rres,       \* consumer: result of the last try_recv call that returned
    received,   \* consumer: items returned by try_recv, in call order
    revents,    \* consumer: revents of the pollfd after the last poll_for_read
    pfd,        \* consumer: fd and events of the pollfd made by as_poll_fd
    readFailed  \* a drain read of try_recv has failed (the code discards it)

vars == <<queue, rxAlive, pipe, readOpen, hstate, nsent, sres, sent, cres,
          cpc, held, rres, received, revents, pfd, readFailed>>

senderVars   == <<hstate, nsent, sres, sent, cres>>
consumerVars == <<cpc, held, rres, received, revents, pfd, readFailed>>

NoItem == <<0, 0>>

\* The two descriptors of the socketpair, and the pollfd not yet made.
ReadFd   == "read end"
WriteFd  == "write end"
NoPollFd == [fd |-> "none", events |-> {}]

\* --------------------------------------------------------------- helpers
\* Handles that currently exist (constructed or cloned, and not dropped):
\* each holds a crossbeam Sender and a duplicate of the write end.
LiveHandles == {h \in Handles : hstate[h] \in {"idle", "write", "enqueue"}}

\* Handles whose write descriptor is open: the live ones and those whose
\* drop has released the field `sender` and not yet the field `write`.
OpenWriteEnds == LiveHandles \cup {h \in Handles : hstate[h] = "closing"}

\* crossbeam: the channel is disconnected for the receiver when no Sender is left.
SendersGone == LiveHandles = {}

\* socketpair: every duplicate of the write end has been closed.
WriteEndsClosed == OpenWriteEnds = {}

\* A blocking write(2) of one byte on the socketpair cannot proceed while the
\* peer is open and its buffer is full.
WriteWouldBlock == readOpen /\ pipe >= PipeCap

\* A blocking read(2) of one byte cannot proceed while the buffer is empty
\* and some write end is still open.
ReadWouldBlock == pipe = 0 /\ ~WriteEndsClosed

\* Mutant of Enqueue: the new item is put at the head of the queue.
Enqueue_AtHead(q, x) == <<x>> \o q

\* crossbeam Sender::send on an unbounded channel: append at the tail.
Enqueue(q, x) == Append(q, x)

\* Mutant of DequeueRest: a dequeue discards the item behind the head as well.
DequeueRest_DropTwo(q) == IF Len(q) >= 2 THEN Tail(Tail(q)) ELSE Tail(q)

\* crossbeam Receiver::try_recv on a non-empty channel: take the head.
DequeueItem(q) == Head(q)
DequeueRest(q) == Tail(q)

\* Mutant of EmptyResult: an empty queue is never reported as disconnected.
EmptyResult_NeverDisconnected == "WouldBlock"

\* Mutant of EmptyResult: one dropped handle is enough to report Disconnected.
EmptyResult_AnyDropped ==
    IF \E h \in Handles : hstate[h] \in {"closing", "dropped"}
    THEN "Disconnected"
    ELSE "WouldBlock"

\* crossbeam Receiver::try_recv on an empty channel.
EmptyResult == IF SendersGone THEN "Disconnected" ELSE "WouldBlock"

\* poll(2) on the read end: readable when bytes are buffered or at end of
\* file; hang-up is reported when every write end is closed.
PollRevents ==
    (IF pipe > 0 \/ WriteEndsClosed THEN {"POLLIN"} ELSE {})
        \cup (IF WriteEndsClosed THEN {"POLLHUP"} ELSE {})

\* Mutant of AsPollFd: the interest mask asks for errors only.
AsPollFd_ErrorOnly(fd) == [fd |-> fd, events |-> {"POLLERR"}, revents |-> {}]

\* AsPollFd for RawFileDescriptor: pollfd { fd, events: POLLIN | POLLERR,
\* revents: 0 }.
AsPollFd(fd) == [fd |-> fd, events |-> {"POLLIN", "POLLERR"}, revents |-> {}]

\* AsPollFd for PollableReceiver: the record of the read end.
ReceiverPollFd == AsPollFd(ReadFd)

\* What poll(2) reports for the record: the conditions of its descriptor
\* that were asked for, and hang-up, which is reported unasked.
PollReported ==
    IF pfd.fd = ReadFd
    THEN PollRevents \cap (pfd.events \cup {"POLLHUP"})
    ELSE {}

\* Number of send calls started so far, over every handle.
RECURSIVE SumTo(_, _)
SumTo(f, n) == IF n = 0 THEN 0 ELSE f[n] + SumTo(f, n - 1)
TotalSends == SumTo(nsent, NumHandles)

SeqToSet(s) == {s[i] : i \in 1..Len(s)}

\* The consumer thread is between two calls on the receiver: "ready" after
\* construction or a try_recv, "woken" after poll_for_read has returned.
AtTop == cpc \in {"ready", "woken"}

\* Descriptors of the socketpair that are open: the read end and one write
\* end per sender handle.
OpenDescriptors == (IF readOpen THEN 1 ELSE 0) + Cardinality(OpenWriteEnds)

\* ------------------------------------------------------------------ Init
\* Before pollable_channel() is called: no queue, no socketpair, no handle.
Init ==
    /\ queue = <<>>
    /\ rxAlive = FALSE
    /\ pipe = 0
    /\ readOpen = FALSE
    /\ hstate = [h \in Handles |-> "none"]
    /\ nsent = [h \in Handles |-> 0]
    /\ sres = [h \in Handles |-> "none"]
    /\ sent = [h \in Handles |-> <<>>]
    /\ cres = "none"
    /\ cpc = "new"
    /\ held = NoItem
    /\ rres = "none"
    /\ received = <<>>
    /\ revents = {}
    /\ pfd = NoPollFd
    /\ readFailed = FALSE

\* --------------------------------------------------------- construction
\* Mutant of PollableChannel: the error is returned with the read end of a
\* socketpair left open.
PollableChannel_LeakOnFailure ==
    /\ cpc = "new"
    /\ \E ok \in BOOLEAN :
         IF ok
         THEN /\ hstate' = [hstate EXCEPT ![1] = "idle"]
              /\ rxAlive' = TRUE
              /\ readOpen' = TRUE
              /\ cpc' = "ready"
         ELSE /\ cpc' = "failed"
              /\ readOpen' = TRUE
              /\ UNCHANGED <<hstate, rxAlive>>
    /\ UNCHANGED <<queue, pipe, nsent, sres, sent, cres, held, rres, received, revents, pfd, readFailed>>

\* pollable_channel(): channel(), then UnixStream::pair()?
\*   ok = TRUE  -> Ok((sender, receiver)) on the new queue and socketpair
\*   ok = FALSE -> pair() fails: ? returns the I/O error, the queue's two
\*                 halves are dropped, no descriptor was opened
PollableChannel ==
    /\ cpc = "new"
    /\ \E ok \in BOOLEAN :
         IF ok
         THEN /\ hstate' = [hstate EXCEPT ![1] = "idle"]
              /\ rxAlive' = TRUE
              /\ readOpen' = TRUE
              /\ cpc' = "ready"
         ELSE /\ cpc' = "failed"
              /\ UNCHANGED <<hstate, rxAlive, readOpen>>
    /\ UNCHANGED <<queue, pipe, nsent, sres, sent, cres, held, rres, received, revents, pfd, readFailed>>

\* ------------------------------------------------------- sender actions
\* PollableSender::send is entered with the next item of the handle's run.
SendCall(h) ==
    /\ hstate[h] = "idle"
    /\ TotalSends < MaxSends
    /\ hstate' = [hstate EXCEPT ![h] = "write"]
    /\ nsent' = [nsent EXCEPT ![h] = @ + 1]
    /\ UNCHANGED <<queue, rxAlive, pipe, readOpen, sres, sent, cres>>
    /\ UNCHANGED consumerVars

\* Mutant of SendWrite: the write sends no byte (an empty buffer).
SendWrite_NoByte(h) ==
    /\ hstate[h] = "write"
    /\ \E ok \in BOOLEAN :
         /\ ok => ~WriteWouldBlock
         /\ IF readOpen /\ ok
            THEN /\ hstate' = [hstate EXCEPT ![h] = "enqueue"]
                 /\ UNCHANGED <<sres, pipe>>
            ELSE /\ hstate' = [hstate EXCEPT ![h] = "idle"]
                 /\ sres' = [sres EXCEPT ![h] = "IoFailure"]
                 /\ UNCHANGED pipe
    /\ UNCHANGED <<queue, rxAlive, readOpen, nsent, sent, cres>>
    /\ UNCHANGED consumerVars

\* Mutant of SendWrite: a write to a closed peer is not reported as an error.
SendWrite_NoEpipe(h) ==
    /\ hstate[h] = "write"
    /\ \E ok \in BOOLEAN :
         /\ ok => ~WriteWouldBlock
         /\ IF ~readOpen \/ ok
            THEN /\ pipe' = pipe + 1
                 /\ hstate' = [hstate EXCEPT ![h] = "enqueue"]
                 /\ UNCHANGED sres
            ELSE /\ hstate' = [hstate EXCEPT ![h] = "idle"]
                 /\ sres' = [sres EXCEPT ![h] = "IoFailure"]
                 /\ UNCHANGED pipe
    /\ UNCHANGED <<queue, rxAlive, readOpen, nsent, sent, cres>>
    /\ UNCHANGED consumerVars

\* Mutant of SendWrite: the result of the write is discarded (.ok() for ?).
SendWrite_IgnoreError(h) ==
    /\ hstate[h] = "write"
    /\ \E ok \in BOOLEAN :
         /\ ok => ~WriteWouldBlock
         /\ pipe' = IF readOpen /\ ok THEN pipe + 1 ELSE pipe
    /\ hstate' = [hstate EXCEPT ![h] = "enqueue"]
    /\ UNCHANGED <<queue, rxAlive, readOpen, nsent, sres, sent, cres>>
    /\ UNCHANGED consumerVars

\* self.write.borrow_mut().write(b"x")?   -- one write(2), blocking descriptor
\*   peer closed            -> EPIPE, send returns the I/O error
\*   otherwise, ok = TRUE   -> one byte buffered, continue to the enqueue; while
\*                             the buffer is full the write stays blocked
\*   otherwise, ok = FALSE  -> the write fails (EINTR, ENOBUFS), send returns
\*                             it; a signal also ends a write that is blocked
SendWrite(h) ==
    /\ hstate[h] = "write"
    /\ \E ok \in BOOLEAN :
         /\ ok => ~WriteWouldBlock
         /\ IF readOpen /\ ok
            THEN /\ pipe' = pipe + 1
                 /\ hstate' = [hstate EXCEPT ![h] = "enqueue"]
                 /\ UNCHANGED sres
            ELSE /\ hstate' = [hstate EXCEPT ![h] = "idle"]
                 /\ sres' = [sres EXCEPT ![h] = "IoFailure"]
                 /\ UNCHANGED pipe
    /\ UNCHANGED <<queue, rxAlive, readOpen, nsent, sent, cres>>
    /\ UNCHANGED consumerVars

\* self.sender.send(item).map_err(..)?; Ok(())
SendEnqueue(h) ==
    /\ hstate[h] = "enqueue"
    /\ IF rxAlive
       THEN /\ queue' = Enqueue(queue, <<h, nsent[h]>>)
            /\ sent' = [sent EXCEPT ![h] = Append(@, <<h, nsent[h]>>)]
            /\ sres' = [sres EXCEPT ![h] = "Ok"]
       ELSE /\ sres' = [sres EXCEPT ![h] = "Disconnected"]
            /\ UNCHANGED <<queue, sent>>
    /\ hstate' = [hstate EXCEPT ![h] = "idle"]
    /\ UNCHANGED <<rxAlive, pipe, readOpen, nsent, cres>>
    /\ UNCHANGED consumerVars

\* Clone for PollableSender: self.sender.clone(), then
\* self.write.borrow().try_clone().expect(..); g is the slot of the new handle.
\*   ok = TRUE  -> a new handle on the same queue and the same pipe
\*   ok = FALSE -> the descriptor cannot be duplicated: expect panics, the
\*                 cloned Sender is dropped by the unwinding, no handle is made
Clone(h, g) ==
    /\ hstate[h] = "idle"
    /\ hstate[g] = "none"
    /\ \A f \in Handles : f < g => hstate[f] # "none"
    /\ \E ok \in BOOLEAN :
         IF ok
         THEN /\ hstate' = [hstate EXCEPT ![g] = "idle"]
              /\ cres' = "Ok"
         ELSE /\ cres' = "Panic"
              /\ UNCHANGED hstate
    /\ UNCHANGED <<queue, rxAlive, pipe, readOpen, nsent, sres, sent>>
    /\ UNCHANGED consumerVars

\* Mutant of DropSenderQueue: the handles share one Sender and one write
\* descriptor, so dropping one handle takes every idle handle with it.
DropSenderQueue_SharedDescriptor(h) ==
    /\ hstate[h] = "idle"
    /\ hstate' = [g \in Handles |->
                    IF hstate[g] = "idle" THEN "closing" ELSE hstate[g]]
    /\ UNCHANGED <<queue, rxAlive, pipe, readOpen, nsent, sres, sent, cres>>
    /\ UNCHANGED consumerVars

\* Drop of a PollableSender, field by field in declaration order:
\* first `sender` (the queue loses this producer) ...
DropSenderQueue(h) ==
    /\ hstate[h] = "idle"
    /\ hstate' = [hstate EXCEPT ![h] = "closing"]
    /\ UNCHANGED <<queue, rxAlive, pipe, readOpen, nsent, sres, sent, cres>>
    /\ UNCHANGED consumerVars

\* ... then `write` (this handle's duplicate of the write end is closed).
DropSenderWrite(h) ==
    /\ hstate[h] = "closing"
    /\ hstate' = [hstate EXCEPT ![h] = "dropped"]
    /\ UNCHANGED <<queue, rxAlive, pipe, readOpen, nsent, sres, sent, cres>>
    /\ UNCHANGED consumerVars

\* ----------------------------------------------------- consumer actions
\* poll_for_read is entered with the record built by as_poll_fd (revents 0).
PollCall ==
    /\ AtTop
    /\ cpc' = "polling"
    /\ pfd' = [fd |-> ReceiverPollFd.fd, events |-> ReceiverPollFd.events]
    /\ revents' = ReceiverPollFd.revents
    /\ UNCHANGED <<queue, rxAlive, pipe, readOpen, held, rres, received, readFailed>>
    /\ UNCHANGED senderVars

\* poll(2) reports the read end and poll_for_read returns.
PollReady ==
    /\ cpc = "polling"
    /\ PollReported # {}
    /\ revents' = PollReported
    /\ cpc' = "woken"
    /\ UNCHANGED <<queue, rxAlive, pipe, readOpen, held, rres, received, pfd, readFailed>>
    /\ UNCHANGED senderVars

\* poll(2) fails (EINTR); its return value is ignored and poll_for_read returns.
PollInterrupted ==
    /\ cpc = "polling"
    /\ cpc' = "woken"
    /\ UNCHANGED <<queue, rxAlive, pipe, readOpen, held, rres, received, revents, pfd, readFailed>>
    /\ UNCHANGED senderVars

\* Mutant of TryRecvEmpty: the pipe is read before the queue is looked at,
\* so a call that finds the queue empty has taken a byte all the same.
TryRecvEmpty_DrainsFirst ==
    /\ AtTop
    /\ queue = <<>>
    /\ rres' = EmptyResult
    /\ cpc' = "ready"
    /\ pipe' = IF pipe > 0 THEN pipe - 1 ELSE pipe
    /\ UNCHANGED <<queue, rxAlive, readOpen, held, received, revents, pfd, readFailed>>
    /\ UNCHANGED senderVars

\* let item = self.receiver.try_recv()?;   -- the Err branch
TryRecvEmpty ==
    /\ AtTop
    /\ queue = <<>>
    /\ rres' = EmptyResult
    /\ cpc' = "ready"
    /\ UNCHANGED <<queue, rxAlive, pipe, readOpen, held, received, revents, pfd, readFailed>>
    /\ UNCHANGED senderVars

\* let item = self.receiver.try_recv()?;   -- the Ok branch
TryRecvPop ==
    /\ AtTop
    /\ queue # <<>>
    /\ held' = DequeueItem(queue)
    /\ queue' = DequeueRest(queue)
    /\ cpc' = "drain"
    /\ UNCHANGED <<rxAlive, pipe, readOpen, rres, received, revents, pfd, readFailed>>
    /\ UNCHANGED senderVars

\* Mutant of TryRecvDrain: the read uses a large buffer and empties the pipe.
TryRecvDrain_DrainAll ==
    /\ cpc = "drain"
    /\ ~ReadWouldBlock
    /\ pipe' = 0
    /\ UNCHANGED readFailed
    /\ received' = Append(received, held)
    /\ held' = NoItem
    /\ rres' = "Item"
    /\ cpc' = "ready"
    /\ UNCHANGED <<queue, rxAlive, readOpen, revents, pfd>>
    /\ UNCHANGED senderVars

\* Mutant of TryRecvDrain: the read uses a two-byte buffer.
TryRecvDrain_TwoBytes ==
    /\ cpc = "drain"
    /\ ~ReadWouldBlock
    /\ \E ok \in BOOLEAN :
         /\ pipe' = IF pipe > 0 /\ ok
                    THEN (IF pipe >= 2 THEN pipe - 2 ELSE 0)
                    ELSE pipe
         /\ readFailed' = (readFailed \/ (pipe > 0 /\ ~ok))
    /\ received' = Append(received, held)
    /\ held' = NoItem
    /\ rres' = "Item"
    /\ cpc' = "ready"
    /\ UNCHANGED <<queue, rxAlive, readOpen, revents, pfd>>
    /\ UNCHANGED senderVars

\* Mutant of TryRecvDrain: the drain read is left out.
TryRecvDrain_NoRead ==
    /\ cpc = "drain"
    /\ received' = Append(received, held)
    /\ held' = NoItem
    /\ rres' = "Item"
    /\ cpc' = "ready"
    /\ UNCHANGED <<queue, rxAlive, pipe, readOpen, revents, pfd, readFailed>>
    /\ UNCHANGED senderVars

\* Mutant of TryRecvDrain: a failed read is returned to the caller (? for
\* .ok()) and the item taken from the queue is dropped with it.
TryRecvDrain_PropagateError ==
    /\ cpc = "drain"
    /\ ~ReadWouldBlock
    /\ \E ok \in BOOLEAN :
         IF pipe > 0 /\ ok
         THEN /\ pipe' = pipe - 1
              /\ received' = Append(received, held)
              /\ rres' = "Item"
              /\ UNCHANGED readFailed
         ELSE /\ rres' = "Disconnected"
              /\ readFailed' = (readFailed \/ pipe > 0)
              /\ UNCHANGED <<pipe, received>>
    /\ held' = NoItem
    /\ cpc' = "ready"
    /\ UNCHANGED <<queue, rxAlive, readOpen, revents, pfd>>
    /\ UNCHANGED senderVars

\* self.read.borrow_mut().read(&mut byte).ok(); Ok(item)
\*   a byte is buffered, ok = TRUE  -> it is consumed
\*   a byte is buffered, ok = FALSE -> the read fails, the error is discarded
\*   nothing buffered, end of file  -> read returns 0
TryRecvDrain ==
    /\ cpc = "drain"
    /\ ~ReadWouldBlock
    /\ \E ok \in BOOLEAN :
         /\ pipe' = IF pipe > 0 /\ ok THEN pipe - 1 ELSE pipe
         /\ readFailed' = (readFailed \/ (pipe > 0 /\ ~ok))
    /\ received' = Append(received, held)
    /\ held' = NoItem
    /\ rres' = "Item"
    /\ cpc' = "ready"
    /\ UNCHANGED <<queue, rxAlive, readOpen, revents, pfd>>
    /\ UNCHANGED senderVars

\* Drop of the PollableReceiver, field by field in declaration order:
\* first `receiver` (the queue loses its consumer and its contents) ...
DropReceiverQueue ==
    /\ AtTop
    /\ rxAlive' = FALSE
    /\ queue' = <<>>
    /\ cpc' = "rxgone"
    /\ UNCHANGED <<pipe, readOpen, held, rres, received, revents, pfd, readFailed>>
    /\ UNCHANGED senderVars

\* ... then `read` (the read end is closed and its buffered bytes are gone).
DropReceiverRead ==
    /\ cpc = "rxgone"
    /\ readOpen' = FALSE
    /\ pipe' = 0
    /\ cpc' = "closed"
    /\ UNCHANGED <<queue, rxAlive, held, rres, received, revents, pfd, readFailed>>
    /\ UNCHANGED senderVars

\* ------------------------------------------------------------------ Next
SenderStep ==
    \/ \E h \in Handles : SendCall(h)
    \/ \E h \in Handles : SendWrite(h)
    \/ \E h \in Handles : SendEnqueue(h)
    \/ \E h, g \in Handles : Clone(h, g)
    \/ \E h \in Handles : DropSenderQueue(h)
    \/ \E h \in Handles : DropSenderWrite(h)

Next ==
    \/ PollableChannel
    \/ SenderStep
    \/ PollCall
    \/ PollReady
    \/ PollInterrupted
    \/ TryRecvEmpty
    \/ TryRecvPop
    \/ TryRecvDrain
    \/ DropReceiverQueue
    \/ DropReceiverRead

Spec == Init /\ [][Next]_vars

\* ------------------------------------------------------ the waiting consumer
\* A consumer that keeps its receiver and calls poll_for_read and try_recv in
\* any order (a wait is not possible once the receiver is dropped); poll(2)
\* does return once the read end is readable or hung up.
WaitNext ==
    \/ PollableChannel
    \/ SenderStep
    \/ PollCall
    \/ PollReady
    \/ PollInterrupted
    \/ TryRecvEmpty
    \/ TryRecvPop
    \/ TryRecvDrain

WaitSpec == Init /\ [][WaitNext]_vars /\ WF_vars(PollReady)

\* ------------------------------------------------- the draining consumer
\* The event loop's use of the receiver: wait in poll_for_read, then call
\* try_recv until it returns WouldBlock, then wait again; stop at Disconnected.
CycleWaits  == cpc = "ready" /\ rres \in {"none", "WouldBlock"}
CycleDrains == cpc = "woken" \/ (cpc = "ready" /\ rres = "Item")

CyclePollCall     == CycleWaits /\ PollCall
CycleTryRecvEmpty == CycleDrains /\ TryRecvEmpty
CycleTryRecvPop   == CycleDrains /\ TryRecvPop

CycleNext ==
    \/ PollableChannel
    \/ SenderStep
    \/ CyclePollCall
    \/ PollReady
    \/ PollInterrupted
    \/ CycleTryRecvEmpty
    \/ CycleTryRecvPop
    \/ TryRecvDrain

\* The consumer thread keeps running and poll(2) reports readiness; nothing
\* is assumed of the producers.
CycleSpec ==
    /\ Init
    /\ [][CycleNext]_vars
    /\ WF_vars(CyclePollCall)
    /\ WF_vars(PollReady)
    /\ WF_vars(CycleTryRecvEmpty)
    /\ WF_vars(CycleTryRecvPop)
    /\ WF_vars(TryRecvDrain)

\* --------------------------------------------- the one-at-a-time consumer
\* A consumer that takes one item per wake-up: wait in poll_for_read, call
\* try_recv once, wait again; it stops at Disconnected.
OneWaits == cpc = "ready" /\ rres # "Disconnected"
OneTries == cpc = "woken"

OnePollCall     == OneWaits /\ PollCall
OneTryRecvEmpty == OneTries /\ TryRecvEmpty
OneTryRecvPop   == OneTries /\ TryRecvPop

OneNext ==
    \/ PollableChannel
    \/ SenderStep
    \/ OnePollCall
    \/ PollReady
    \/ PollInterrupted
    \/ OneTryRecvEmpty
    \/ OneTryRecvPop
    \/ TryRecvDrain

\* The consumer thread keeps running and poll(2) reports readiness; nothing
\* is assumed of the producers.
OneSpec ==
    /\ Init
    /\ [][OneNext]_vars
    /\ WF_vars(OnePollCall)
    /\ WF_vars(PollReady)
    /\ WF_vars(OneTryRecvEmpty)
    /\ WF_vars(OneTryRecvPop)
    /\ WF_vars(TryRecvDrain)

TypeOK ==
    /\ queue \in Seq(Items)
    /\ rxAlive \in BOOLEAN
    /\ pipe \in 0..PipeCap
    /\ readOpen \in BOOLEAN
    /\ hstate \in [Handles -> {"none", "idle", "write", "enqueue", "closing",
                             "dropped"}]
    /\ nsent \in [Handles -> 0..MaxSends]
    /\ sres \in [Handles -> {"none", "Ok", "IoFailure", "Disconnected"}]
    /\ sent \in [Handles -> Seq(Items)]
    /\ cres \in {"none", "Ok", "Panic"}
    /\ cpc \in {"new", "failed", "ready", "polling", "woken", "drain",
               "rxgone", "closed"}
    /\ held \in Items \cup {NoItem}
    /\ received \in Seq(Items)
    /\ rres \in {"none", "Item", "WouldBlock", "Disconnected"}
    /\ revents \subseteq {"POLLIN", "POLLHUP"}
    /\ readFailed \in BOOLEAN
    /\ pfd \in {NoPollFd, [fd |-> ReadFd, events |-> {"POLLIN", "POLLERR"}]}

\* ================================================================ claims
\* The items of sequence s that were sent on handle h, in the order of s.
FromHandle(h, s) == SelectSeq(s, LAMBDA x : x[1] = h)

IsPrefix(a, b) == Len(a) <= Len(b) /\ SubSeq(b, 1, Len(a)) = a

\* C1: in every reachable state the wake-pipe holds at least as many unread
\* bytes as the queue holds items, and whenever the queue is non-empty the
\* read end is readable.
C1_PipeCoversQueue ==
    /\ pipe >= Len(queue)
    /\ queue # <<>> => pipe >= 1 /\ "POLLIN" \in PollRevents

\* A try_recv has returned one handle's item, another handle's item is
\* queued, and the pipe holds more bytes than the queue holds items.
C1_Witness ==
    /\ Len(queue) = 1
    /\ received # <<>>
    /\ queue[1][1] # received[1][1]
    /\ pipe > Len(queue)

\* C2: per-handle FIFO: the items received from one handle, in the order
\* try_recv returned them, are a prefix of the items that handle sent
\* successfully, whatever the other handles do.
C2_PerHandleFifo ==
    \A h \in Handles : IsPrefix(FromHandle(h, received), sent[h])

\* Two items of one handle were received with another handle's item
\* received between them.
C2_Witness ==
    /\ Len(received) = 3
    /\ received[1][1] = received[3][1]
    /\ received[2][1] # received[1][1]

\* C3: once try_recv has reported Disconnected, every successfully sent item
\* has been received exactly once: nothing lost, nothing delivered twice.
C3_NoLossNoDup ==
    rres = "Disconnected" =>
        /\ SeqToSet(received) = UNION {SeqToSet(sent[h]) : h \in Handles}
        /\ Cardinality(SeqToSet(received)) = Len(received)
        /\ \A h \in Handles : Len(FromHandle(h, received)) = Len(sent[h])

\* Both handles sent, both were dropped, and the receiver drained the
\* queue until Disconnected.
C3_Witness ==
    /\ rres = "Disconnected"
    /\ Len(received) = MaxSends
    /\ \A h \in Handles : sent[h] # <<>> /\ hstate[h] = "dropped"

\* C4: a poll_for_read on the receiver's record alone does not hang while a
\* successfully sent item is still unreceived, whether the send completed
\* before the wait started or while the wait was blocked.
C4_WaitReturns ==
    (cpc = "polling" /\ queue # <<>>) ~> (cpc # "polling")

\* The consumer saw WouldBlock and is blocked in the wait, with nothing
\* reported yet, while the only send made so far has completed.
C4_Witness ==
    /\ cpc = "polling"
    /\ rres = "WouldBlock"
    /\ queue # <<>>
    /\ TotalSends = 1
    /\ received = <<>>

\* Number of send calls that have returned Ok, over every handle.
NumOk == SumTo([h \in Handles |-> Len(sent[h])], NumHandles)

\* C5: a consumer that waits and then drains with try_recv until WouldBlock
\* eventually receives every item whose send returned Ok: what it receives
\* are sent items, none twice, and it catches up again and again with the
\* number of sends that have returned Ok, so no such item stays unreceived.
C5_EveryItemReceived ==
    /\ [](/\ SeqToSet(received) \subseteq UNION {SeqToSet(sent[h]) : h \in Handles}
          /\ Cardinality(SeqToSet(received)) = Len(received))
    /\ []<>(Len(received) >= NumOk)

\* The race: the consumer was woken by the first sender's byte and found
\* the queue empty (WouldBlock); the sender has enqueued its item since.
C5_Witness ==
    /\ cpc = "ready"
    /\ rres = "WouldBlock"
    /\ revents = {"POLLIN"}
    /\ Len(queue) = 1
    /\ pipe = 1
    /\ received = <<>>
    /\ TotalSends = 1

\* ------------------------------------------------ steps, seen from outside
\* The write statement of h's send has executed.
SendWriteDone(h) == hstate[h] = "write" /\ hstate'[h] # "write"

\* The enqueue statement of h's send has executed.
SendEnqueueDone(h) == hstate[h] = "enqueue" /\ hstate'[h] # "enqueue"

\* A try_recv call was made on an empty queue and has returned.
TryRecvEmptyDone ==
    AtTop /\ queue = <<>> /\ cpc' = "ready" /\ senderVars' = senderVars

\* Both fields of the PollableReceiver have been dropped.
ReceiverDropped == cpc = "closed"

\* C6 (as claimed): after the receiver has been dropped, a send fails with
\* Disconnected, not with an I/O failure, and the item is not delivered.
C6_SendAfterDropDisconnected ==
    [][\A h \in Handles :
          (ReceiverDropped /\ (SendWriteDone(h) \/ SendEnqueueDone(h)))
              => /\ hstate'[h] = "idle"
                 /\ sres'[h] = "Disconnected"
                 /\ UNCHANGED <<queue, sent, received>>]_vars

\* C6 (amended): after the receiver has been dropped, a send fails and the
\* item is not delivered; the error is the I/O failure of the pipe write,
\* which comes first.  Only a send whose pipe write had succeeded before the
\* read end was closed reaches the enqueue, and that one fails with
\* Disconnected.
C6_SendAfterDropFails ==
    [][\A h \in Handles :
          ReceiverDropped
              => /\ SendWriteDone(h)
                      => hstate'[h] = "idle" /\ sres'[h] = "IoFailure"
                 /\ SendEnqueueDone(h)
                      => hstate'[h] = "idle" /\ sres'[h] = "Disconnected"
                 /\ UNCHANGED <<queue, sent, received>>]_vars

\* The receiver is gone; one send has failed on its pipe write and another,
\* caught between its write and its enqueue, has failed as Disconnected.
C6_Witness ==
    /\ ReceiverDropped
    /\ \E h, g \in Handles :
          /\ hstate[h] = "idle" /\ sres[h] = "IoFailure"
          /\ hstate[g] = "idle" /\ sres[g] = "Disconnected"

\* The item of the last send call made on handle h.
LastItem(h) == <<h, nsent[h]>>

\* C7: when the one-byte pipe write of a send fails, the send returns the
\* error and enqueues nothing: queue and pipe are as they were, and the
\* item never reaches the consumer.
C7_FailedWriteNoEffect ==
    [][\A h \in Handles :
          /\ SendWriteDone(h)
                => /\ \/ /\ pipe' = pipe + 1
                         /\ hstate'[h] = "enqueue"
                         /\ sres'[h] = sres[h]
                      \/ /\ pipe' = pipe
                         /\ hstate'[h] = "idle"
                         /\ sres'[h] = "IoFailure"
                   /\ UNCHANGED <<queue, sent, received, held>>
          /\ sres'[h] = "IoFailure"
                => LastItem(h)' \notin
                     SeqToSet(queue') \cup SeqToSet(received') \cup {held'}
                        \cup SeqToSet(sent'[h])]_vars

\* A pipe write failed with the read end open and an item queued; the
\* queue still holds just that item and the pipe just its byte.
C7_Witness ==
    /\ readOpen
    /\ \E h \in Handles : hstate[h] = "idle" /\ sres[h] = "IoFailure"
    /\ Len(queue) = 1
    /\ pipe = 1
    /\ TotalSends = 2

\* C8 (as claimed): send and try_recv never block: a send that has reached
\* its pipe write can complete it whatever the consumer does, and a try_recv
\* that has reached its pipe read can complete it whatever the producers do.
C8_NeverBlocks ==
    /\ \A h \in Handles : hstate[h] = "write" => ~WriteWouldBlock
    /\ cpc = "drain" => ~ReadWouldBlock

\* What holds of the channel once try_recv has reported Disconnected.
Drained ==
    /\ SendersGone
    /\ queue = <<>>
    /\ held = NoItem
    /\ \A h \in Handles : FromHandle(h, received) = sent[h]

\* C9: try_recv reports Disconnected exactly when every sender handle is
\* dropped and the queue is empty: what was enqueued before has been
\* returned, in order, and every later call reports Disconnected again.
C9_DisconnectedWhenDrained ==
    [][/\ rres' = "Disconnected" => Drained'
       /\ TryRecvEmptyDone /\ SendersGone => rres' = "Disconnected"
       /\ rres = "Disconnected" => rres' = "Disconnected"]_vars

\* Poll reported the hang-up of the last sender, and try_recv returned two
\* items and then Disconnected.
C9_Witness ==
    /\ rres = "Disconnected"
    /\ "POLLHUP" \in revents
    /\ Len(received) = 2
    /\ cpc = "ready"

\* C10: try_recv on an empty queue with a sender handle alive returns
\* WouldBlock at once and changes nothing, also when a sender has written
\* its byte and not yet enqueued its item.
C10_EmptyConnectedWouldBlock ==
    [][TryRecvEmptyDone /\ ~SendersGone
          => /\ rres' = "WouldBlock"
             /\ UNCHANGED <<queue, pipe, held, received>>]_vars

\* The consumer was woken by the byte of the first send, got WouldBlock,
\* and the sender is still between its pipe write and its enqueue.
C10_Witness ==
    /\ cpc = "ready"
    /\ rres = "WouldBlock"
    /\ revents = {"POLLIN"}
    /\ received = <<>>
    /\ queue = <<>>
    /\ pipe = 1
    /\ TotalSends = 1
    /\ \E h \in Handles : hstate[h] = "enqueue"

\* C11 (as claimed): whenever poll_for_read has returned, the record it was
\* given has a non-zero revents, whatever the outcome of poll(2).
C11_ReturnsOnlyWhenReported ==
    cpc = "woken" => revents # {}

\* A step of the drop of handle h has executed: its Sender was released or
\* its write descriptor was closed.
DropSenderDone(h) ==
    \/ hstate[h] = "idle" /\ hstate'[h] = "closing"
    \/ hstate[h] = "closing" /\ hstate'[h] = "dropped"

\* A clone call has panicked in this step.
ClonePanicked == cres # "Panic" /\ cres' = "Panic"

\* Handle g has been created by clone in this step.
CloneDone(g) == cpc # "new" /\ hstate[g] = "none" /\ hstate'[g] # "none"

\* C12: a clone feeds the same queue and the same pipe as its original and
\* lives on its own: a clone or a drop of one handle changes nothing of the
\* other handles, of the queue or of the pipe, and a clone call that panics
\* makes no handle and changes nothing at all; a remaining handle can still
\* complete its pipe write and its enqueue succeeds while the receiver
\* lives; Disconnected is not reported while a handle is left.
C12_CloneIndependent ==
    /\ [](\A h \in Handles :
            (hstate[h] = "write" /\ readOpen /\ ~WriteWouldBlock)
                => ENABLED (SendWrite(h) /\ pipe' = pipe + 1))
    /\ [][\A h \in Handles :
            /\ DropSenderDone(h) \/ CloneDone(h)
                  => /\ \A g \in Handles \ {h} : hstate'[g] = hstate[g]
                     /\ UNCHANGED <<queue, pipe, readOpen, rxAlive>>
            /\ CloneDone(h) => hstate'[h] = "idle"
            /\ ClonePanicked
                  => /\ UNCHANGED <<queue, pipe, readOpen, rxAlive>>
                     /\ UNCHANGED <<hstate, nsent, sres, sent>>
                     /\ UNCHANGED consumerVars
            /\ SendEnqueueDone(h) /\ rxAlive
                  => /\ sres'[h] = "Ok"
                     /\ queue' = Append(queue, <<h, nsent[h]>>)
            /\ TryRecvEmptyDone /\ LiveHandles # {}
                  => rres' # "Disconnected"]_vars

\* The original handle was dropped without sending; the clone has sent
\* every item with Ok, all were received, and the last try_recv said
\* WouldBlock, not Disconnected.
C12_Witness ==
    /\ hstate[1] = "dropped"
    /\ nsent[1] = 0
    /\ hstate[2] = "idle"
    /\ Len(sent[2]) = MaxSends
    /\ received = sent[2]
    /\ rres = "WouldBlock"

\* C13: a try_recv that returns WouldBlock or Disconnected changes nothing:
\* queue, pipe and every handle are as before, the result is one of the
\* two and never a descriptor error, and a repeated call gives the same
\* result again (Disconnected for good, WouldBlock while a sender lives).
C13_EmptyTryRecvNoEffect ==
    [][TryRecvEmptyDone
          => /\ rres' \in {"WouldBlock", "Disconnected"}
             /\ UNCHANGED <<queue, pipe, readOpen, rxAlive, held, received>>
             /\ UNCHANGED senderVars
             /\ rres = "Disconnected" => rres' = rres
             /\ rres = "WouldBlock" /\ ~SendersGone => rres' = rres]_vars

\* The one item sent was received but its byte was left in the pipe; the
\* senders are gone, and try_recv has said Disconnected with the byte
\* still there.
C13_Witness ==
    /\ cpc = "ready"
    /\ rres = "Disconnected"
    /\ "POLLHUP" \in revents
    /\ Len(received) = 1
    /\ pipe = 1

\* The drain read of a try_recv has executed and the call has returned.
TryRecvDrainDone == cpc = "drain" /\ cpc' # "drain"

\* C14: once try_recv has taken an item from the queue it returns that item
\* whatever the drain read does: a failed read is not reported, the item is
\* not lost, and the only trace of the failure is the byte left in the pipe.
C14_DrainFailureSwallowed ==
    [][TryRecvDrainDone
          => /\ held # NoItem
             /\ cpc' = "ready"
             /\ rres' = "Item"
             /\ received' = Append(received, held)
             /\ pipe' \in {pipe, pipe - 1} \cap (0..pipe)
             /\ UNCHANGED <<queue, readOpen, rxAlive>>
             /\ UNCHANGED senderVars]_vars

\* The only send made has completed and its item was returned by try_recv,
\* but its byte is still in the pipe: the drain read failed.
C14_Witness ==
    /\ cpc = "ready"
    /\ rres = "Item"
    /\ TotalSends = 1
    /\ Len(received) = 1
    /\ queue = <<>>
    /\ pipe = 1
    /\ \A h \in Handles : hstate[h] \notin {"write", "enqueue"}

\* pollable_channel has returned in this step.
PollableChannelDone == cpc = "new" /\ cpc' # "new"

\* C15: pollable_channel returns either one sender and one receiver on a
\* fresh queue and a fresh socketpair (queue empty, no unread byte), or,
\* when the socketpair cannot be made, an error with nothing left behind:
\* no sender, no receiver, no open descriptor, then or later.
C15_ChannelOrNothing ==
    /\ [](cpc = "failed"
            => /\ OpenDescriptors = 0
               /\ LiveHandles = {}
               /\ ~rxAlive
               /\ queue = <<>> /\ pipe = 0)
    /\ [][PollableChannelDone
            => \/ /\ cpc' = "ready"
                  /\ LiveHandles' = {1} /\ hstate'[1] = "idle"
                  /\ rxAlive' /\ readOpen'
                  /\ OpenDescriptors' = 2
                  /\ queue' = <<>> /\ pipe' = 0
               \/ /\ cpc' = "failed"
                  /\ LiveHandles' = {}
                  /\ ~rxAlive' /\ ~readOpen'
                  /\ OpenDescriptors' = 0
                  /\ queue' = <<>> /\ pipe' = 0]_vars

\* pollable_channel has returned the I/O error.
C15_Witness ==
    /\ cpc = "failed"
    /\ OpenDescriptors = 0

\* The receiver's record has been made and poll_for_read entered with it.
AsPollFdDone == AtTop /\ cpc' = "polling"

\* C16: the record the receiver produces holds the descriptor of the pipe's
\* read end, the interest mask readable|error and nothing else, and an
\* observed field of 0; making it changes neither the queue nor the pipe.
C16_ReceiverRecord ==
    [][AsPollFdDone
          => /\ pfd'.fd = ReadFd
             /\ pfd'.fd # WriteFd
             /\ pfd'.events = {"POLLIN", "POLLERR"}
             /\ revents' = {}
             /\ UNCHANGED <<queue, pipe, readOpen, rxAlive, held, rres, received>>
             /\ UNCHANGED senderVars]_vars

\* A record was made anew after an earlier wait had reported the read end
\* readable, with an item queued and two bytes unread.
C16_Witness ==
    /\ cpc = "polling"
    /\ pfd.fd = ReadFd
    /\ revents = {}
    /\ rres = "Item"
    /\ Len(queue) = 1
    /\ pipe = 2

\* C17: whenever try_recv has taken an item and is at its drain read, the
\* pipe holds an unread byte, so the read on the blocking descriptor finds
\* one and does not wait for a producer.
C17_DrainFindsByte ==
    cpc = "drain" => pipe >= 1 /\ ~ReadWouldBlock

\* try_recv is at its drain read with its own byte the only one in the
\* pipe, while a producer has entered send and not yet written.
C17_Witness ==
    /\ cpc = "drain"
    /\ pipe = 1
    /\ queue = <<>>
    /\ received # <<>>
    /\ \E h \in Handles : hstate[h] = "write"

\* The receiver exists and neither a send nor a try_recv is in progress.
Quiescent ==
    /\ cpc \in {"ready", "woken", "polling"}
    /\ \A h \in Handles : hstate[h] \notin {"write", "enqueue"}

\* C18: while the receiver exists, no drain read has failed and no send or
\* try_recv is in progress, the pipe holds exactly one unread byte per
\* queued item; so with the queue drained and a sender alive the read end
\* is not ready and a wait blocks.
C18_PipeEqualsQueueAtRest ==
    (Quiescent /\ ~readFailed)
        => /\ pipe = Len(queue)
           /\ (queue = <<>> /\ ~WriteEndsClosed) => PollRevents = {}
           /\ (queue = <<>> /\ ~WriteEndsClosed /\ cpc = "polling")
                  => PollReported = {}

\* The consumer received every item, saw WouldBlock and is waiting again
\* with a sender alive: the pipe is empty and poll has nothing to report.
C18_Witness ==
    /\ cpc = "polling"
    /\ rres = "WouldBlock"
    /\ Len(received) = MaxSends
    /\ ~readFailed
    /\ LiveHandles # {}
    /\ pipe = 0
    /\ PollReported = {}

\* C19: a consumer that takes one item per wake-up still receives every
\* item sent with Ok: while it waits with items queued the read end is
\* ready, one byte per queued item, and it catches up again and again with
\* the number of sends that have returned Ok.
C19_OnePerWakeupReceivesAll ==
    /\ []((cpc = "polling" /\ queue # <<>>)
            => pipe >= Len(queue) /\ "POLLIN" \in PollReported)
    /\ []<>(Len(received) >= NumOk)

\* Two items were queued when the consumer woke; it took one and is
\* waiting again with the other still queued and its byte unread.
C19_Witness ==
    /\ cpc = "polling"
    /\ rres = "Item"
    /\ Len(received) = 1
    /\ Len(queue) = 1
    /\ pipe = 1
    /\ \A h \in Handles : hstate[h] \notin {"write", "enqueue"}

====
